---- MODULE Spec2Model ----
(***************************************************************************)
(* Verification model of the qiskit-dynamics tutorial notebooks.           *)
(*                                                                         *)
(* The notebooks are glue code over qiskit, qiskit-dynamics and            *)
(* qiskit-experiments.  The part of them that is computed by code written  *)
(* in the notebooks themselves is modelled here; the first such function   *)
(* is fidelity(U) of optimizing_pulse_sequence.ipynb.                      *)
(*                                                                         *)
(* Complex numbers are Gaussian integers <<re, im>>; a 2x2 matrix is a     *)
(* tuple of two rows, each a tuple of two complex numbers.  The division   *)
(* by 4. of the code is kept as an exact fraction [num, den].              *)
(***************************************************************************)
EXTENDS Integers, Sequences, FiniteSets, TLC

\* Largest absolute value of the real and imaginary part of an entry of U.
MaxEntry == 1

Entries == (-MaxEntry)..MaxEntry

Complex == Entries \X Entries

Mat2 == { <<r1, r2>> : r1 \in Complex \X Complex, r2 \in Complex \X Complex }

CZero == <<0, 0>>

COne == <<1, 0>>

\* complex addition and multiplication, as numpy computes them entry by entry
CAdd(a, b) == <<a[1] + b[1], a[2] + b[2]>>

CMul(a, b) == <<a[1] * b[1] - a[2] * b[2], a[1] * b[2] + a[2] * b[1]>>

\* np.abs(z)**2
AbsSq(z) == z[1] * z[1] + z[2] * z[2]

\* A * B on two arrays: the element-wise product
ElemMul(A, B) == [i \in 1..2 |-> [j \in 1..2 |-> CMul(A[i][j], B[i][j])]]

\* A @ B: the matrix product
MatMul(A, B) ==
  [i \in 1..2 |-> [j \in 1..2 |->
      CAdd(CMul(A[i][1], B[1][j]), CMul(A[i][2], B[2][j]))]]

\* np.sum(A): the sum of all entries
MatSum(A) == CAdd(CAdd(A[1][1], A[1][2]), CAdd(A[2][1], A[2][2]))

\* Tr(A)
Trace(A) == CAdd(A[1][1], A[2][2])

\* X_op = Array(Operator.from_label('X'))
X_op == << <<CZero, COne>>, <<COne, CZero>> >>

\* a slip that keeps np.sum but takes the matrix product
fidelity_sum_of_matmul(U) == [num |-> AbsSq(MatSum(MatMul(X_op, U))), den |-> 4]

\* def fidelity(U): return np.abs(np.sum(X_op * U))**2 / 4.
fidelity(U) == [num |-> AbsSq(MatSum(ElemMul(X_op, U))), den |-> 4]

NoValue == [num |-> -1, den |-> 1]


(***************************************************************************)
(* The model cell of the DynamicsBackend notebook (dim = 3, two transmons). *)
(* All arrays of the cell have zero imaginary part (real data and a        *)
(* complex identity), and their entries are built from integers and        *)
(* sqrt(2): a real number p + q*sqrt(2) is the pair <<p, q>>.  Frequencies *)
(* are in MHz and the common factor np.pi is taken out, so 2*np.pi*v is    *)
(* the number 2*v.                                                         *)
(***************************************************************************)

\* dim = 3
dim == 3

RZero == <<0, 0>>

ROne == <<1, 0>>

RAdd(x, y) == <<x[1] + y[1], x[2] + y[2]>>

RSub(x, y) == <<x[1] - y[1], x[2] - y[2]>>

RMul(x, y) == <<x[1] * y[1] + 2 * x[2] * y[2], x[1] * y[2] + x[2] * y[1]>>

\* an integer as a number
RInt(k) == <<k, 0>>

\* np.sqrt(k) for the arguments np.arange(1, dim) that have a root in Z[sqrt 2]
RSqrt(k) == CASE k = 1 -> <<1, 0>> [] k = 2 -> <<0, 1>> [] k = 4 -> <<2, 0>>

\* the number of rows of a square array
Size(A) == Len(A)

\* A + B, A - B and the scalar multiple c * A
HAdd(A, B) == [i \in 1..Size(A) |-> [j \in 1..Size(A) |-> RAdd(A[i][j], B[i][j])]]

HSub(A, B) == [i \in 1..Size(A) |-> [j \in 1..Size(A) |-> RSub(A[i][j], B[i][j])]]

HScale(c, A) == [i \in 1..Size(A) |-> [j \in 1..Size(A) |-> RMul(RInt(c), A[i][j])]]

\* A * B: the element-wise product
HElemMul(A, B) == [i \in 1..Size(A) |-> [j \in 1..Size(A) |-> RMul(A[i][j], B[i][j])]]

RECURSIVE RowCol(_, _, _, _, _)
\* sum over k <= n of A[i][k] * B[k][j]
RowCol(A, B, i, j, n) ==
  IF n = 0 THEN RZero
  ELSE RAdd(RowCol(A, B, i, j, n - 1), RMul(A[i][n], B[n][j]))

\* A @ B: the matrix product
HMatMul(A, B) ==
  [i \in 1..Size(A) |-> [j \in 1..Size(A) |-> RowCol(A, B, i, j, Size(A))]]

\* np.kron(A, B)
Kron(A, B) ==
  LET m == Size(B)
  IN [i \in 1..(Size(A) * m) |-> [j \in 1..(Size(A) * m) |->
        RMul(A[((i - 1) \div m) + 1][((j - 1) \div m) + 1],
             B[((i - 1) % m) + 1][((j - 1) % m) + 1])]]

\* the conjugate transpose of an array with zero imaginary part
Dagger(A) == [i \in 1..Size(A) |-> [j \in 1..Size(A) |-> A[j][i]]]

\* a = np.diag(np.sqrt(np.arange(1, dim)), 1)
a == [i \in 1..dim |-> [j \in 1..dim |-> IF j = i + 1 THEN RSqrt(i) ELSE RZero]]

\* adag = np.diag(np.sqrt(np.arange(1, dim)), -1)
adag == [i \in 1..dim |-> [j \in 1..dim |-> IF i = j + 1 THEN RSqrt(j) ELSE RZero]]

\* N = np.diag(np.arange(dim))
N == [i \in 1..dim |-> [j \in 1..dim |-> IF i = j THEN RInt(i - 1) ELSE RZero]]

\* ident = np.eye(dim, dtype=complex)
ident == [i \in 1..dim |-> [j \in 1..dim |-> IF i = j THEN ROne ELSE RZero]]

\* full_ident = np.eye(dim**2, dtype=complex)
full_ident ==
  [i \in 1..(dim * dim) |-> [j \in 1..(dim * dim) |-> IF i = j THEN ROne ELSE RZero]]

N0 == Kron(ident, N)

N1 == Kron(N, ident)

a0 == Kron(ident, a)

a1 == Kron(a, ident)

a0dag == Kron(ident, adag)

a1dag == Kron(adag, ident)

\* static_ham0 = 2 * np.pi * v0 * N0 + np.pi * anharm0 * N0 * (N0 - full_ident)
static_ham0(p) ==
  HAdd(HScale(2 * p.v0, N0), HElemMul(HScale(p.anharm0, N0), HSub(N0, full_ident)))

\* static_ham1 = 2 * np.pi * v1 * N1 + np.pi * anharm1 * N1 * (N1 - full_ident)
static_ham1(p) ==
  HAdd(HScale(2 * p.v1, N1), HElemMul(HScale(p.anharm1, N1), HSub(N1, full_ident)))

\* a slip that writes the coupling with * as the anharmonicity terms are
static_ham_elementwise_coupling(p) ==
  HAdd(HAdd(static_ham0(p), static_ham1(p)),
       HScale(2 * p.J, HElemMul(HAdd(a0, a0dag), HAdd(a1, a1dag))))

\* static_ham_full = static_ham0 + static_ham1
\*                   + 2 * np.pi * J * ((a0 + a0dag) @ (a1 + a1dag))
static_ham(p) ==
  HAdd(HAdd(static_ham0(p), static_ham1(p)),
       HScale(2 * p.J, HMatMul(HAdd(a0, a0dag), HAdd(a1, a1dag))))

\* drive_op0 = 2 * np.pi * r0 * (a0 + a0dag)
drive0(p) == HScale(2 * p.r0, HAdd(a0, a0dag))

\* drive_op1 = 2 * np.pi * r1 * (a1 + a1dag)
drive1(p) == HScale(2 * p.r1, HAdd(a1, a1dag))

\* v0 = 4.86e9, anharm0 = -0.32e9, r0 = 0.22e9, v1 = 4.97e9,
\* anharm1 = -0.32e9, r1 = 0.26e9, J = 0.002e9, in MHz
NotebookParams ==
  [v0 |-> 4860, anharm0 |-> -320, r0 |-> 220,
   v1 |-> 4970, anharm1 |-> -320, r1 |-> 260, J |-> 2]

\* the values of the notebook and other values a user may set in the cell
ParamChoices ==
  [v0 : {4860, 1}, anharm0 : {-320, 0, 1}, r0 : {220, 1},
   v1 : {4970, 1}, anharm1 : {-320, 1}, r1 : {260, 1}, J : {2, 0, 1}]

NoArray == << >>

(***************************************************************************)
(* objective(params) of the optimization notebook.  A snapshot returned by *)
(* the solver is a matrix m / sqrt(k) with m a Gaussian-integer matrix,    *)
(* written [m |-> m, k |-> k].  Envelope samples are in thousandths.  The  *)
(* Convolution and the Solver are library objects: their results are       *)
(* chosen nondeterministically.                                            *)
(***************************************************************************)

\* Largest number of optimization parameters and largest absolute value of one.
MaxParams == 2

MaxParam == 1

\* Largest number of samples of the signal returned by the convolution.
MaxDuration == 2

\* v = 5.
v == 5

\* np.arctan(x) / (np.pi / 2) for an integer x, in thousandths
ArctanTable == <<500, 705, 795, 844, 874, 895, 910, 921, 930>>

arctan_normalize(x) ==
  IF x = 0 THEN 0
  ELSE IF x > 0 THEN ArctanTable[IF x > 9 THEN 9 ELSE x]
  ELSE -ArctanTable[IF -x > 9 THEN 9 ELSE -x]

\* bounded_samples = np.arctan(samples) / (np.pi / 2)
bounded_samples(ps) == [i \in 1..Len(ps) |-> arctan_normalize(ps[i])]

\* padded_samples = np.append(Array([0], dtype=complex), bounded_samples)
padded_samples(ps) == <<0>> \o bounded_samples(ps)

\* the signals signal_mapping(params) may return: the convolution of
\* DiscreteSignal(dt=1., samples=padded_samples), with carrier_freq set to v
signal_mapping(ps) ==
  { [input |-> padded_samples(ps), dt |-> 1, duration |-> d, carrier_freq |-> v] :
      d \in 1..MaxDuration }

ParamArrays == UNION { [1..n -> (-MaxParam)..MaxParam] : n \in 1..MaxParams }

\* np.eye(2, dtype=complex)
Eye2 == << <<COne, CZero>>, <<CZero, COne>> >>

Conj(z) == <<z[1], -z[2]>>

\* the conjugate transpose of a 2x2 matrix
Dagger2(A) == [i \in 1..2 |-> [j \in 1..2 |-> Conj(A[j][i])]]

\* k * Eye2
ScaledEye2(k) == << <<<<k, 0>>, CZero>>, <<CZero, <<k, 0>>>> >>

RowNorm(M) == AbsSq(M[1][1]) + AbsSq(M[1][2])

\* the unitary matrices m / sqrt(k) with the entries of m within MaxEntry
Unitaries ==
  { [m |-> M, k |-> RowNorm(M)] :
      M \in { A \in Mat2 : /\ RowNorm(A) > 0
                          /\ MatMul(A, Dagger2(A)) = ScaledEye2(RowNorm(A)) } }

\* y0 = np.eye(2, dtype=complex)
y0 == [m |-> Eye2, k |-> 1]

\* results.y of a simulation of the Schrodinger equation: the snapshots,
\* the last of which is the unitary at the end of t_span
Trajectories ==
  { <<l>> : l \in Unitaries } \cup { <<y0, l>> : l \in Unitaries }

\* fidelity(U) for U = m / sqrt(k)
fidelity_of_snapshot(S) ==
  [num |-> fidelity(S.m).num, den |-> fidelity(S.m).den * S.k]

\* 1. - fid.data
one_minus(f) == [num |-> f.den - f.num, den |-> f.den]

\* a slip that reads the first snapshot results.y[0]
snapshot_first(ys) == ys[1]

\* U = results.y[-1]
snapshot_read(ys) == ys[Len(ys)]

NoSignal == [input |-> << >>, dt |-> 0, duration |-> 0, carrier_freq |-> 0]

NoCall == [y0 |-> << >>, t_span |-> << >>, signals |-> << >>]

VARIABLES U, fid, pc, prm, static_ham_full, drive_op0, drive_op1, hpc,
          params, signal, solve_call, results_y, value, opc

vars == <<U, fid, pc, prm, static_ham_full, drive_op0, drive_op1, hpc,
          params, signal, solve_call, results_y, value, opc>>

fidVars == <<U, fid, pc>>

hamVars == <<prm, static_ham_full, drive_op0, drive_op1, hpc>>

\* the model cell has not been run
HamIdle ==
  /\ prm = NotebookParams
  /\ static_ham_full = NoArray
  /\ drive_op0 = NoArray
  /\ drive_op1 = NoArray
  /\ hpc = "idle"

objVars == <<params, signal, solve_call, results_y, value, opc>>

\* objective has not been called
ObjIdle ==
  /\ params = << >>
  /\ signal = NoSignal
  /\ solve_call = NoCall
  /\ results_y = << >>
  /\ value = NoValue
  /\ opc = "idle"

\* fidelity has not been called
FidIdle ==
  /\ U = X_op
  /\ fid = NoValue
  /\ pc = "idle"

\* any 2x2 complex matrix may be handed to fidelity
Init ==
  /\ U \in Mat2
  /\ fid = NoValue
  /\ pc = "ready"
  /\ HamIdle
  /\ ObjIdle

\* the call fidelity(U)
Fidelity ==
  /\ pc = "ready"
  /\ fid' = fidelity(U)
  /\ pc' = "done"
  /\ UNCHANGED U
  /\ UNCHANGED hamVars
  /\ UNCHANGED objVars

Next == Fidelity

Spec == Init /\ [][Next]_vars

\* C10: for every 2x2 complex matrix U, the value returned by fidelity(U)
\* equals |Tr(X U)|^2 / 4 with the matrix product X U, although the code
\* sums the element-wise product X_op * U.
FidelityIsTraceFormula ==
  pc = "done" => fid = [num |-> AbsSq(Trace(MatMul(X_op, U))), den |-> 4]

\* fidelity has been applied to a matrix with non-zero diagonal and
\* off-diagonal entries, for which X_op * U and X_op @ U differ
FidelityAppliedToFullMatrix ==
  /\ pc = "done"
  /\ U[1][1] # CZero /\ U[2][2] # CZero
  /\ U[1][2] # CZero /\ U[2][1] # CZero
  /\ ElemMul(X_op, U) # MatMul(X_op, U)
  /\ fid.num > 0

\* the model cell is about to run with some parameter values
InitHam ==
  /\ prm \in ParamChoices
  /\ static_ham_full = NoArray
  /\ drive_op0 = NoArray
  /\ drive_op1 = NoArray
  /\ hpc = "ready"
  /\ FidIdle
  /\ ObjIdle

\* the model cell: static_ham_full, drive_op0 and drive_op1 are assembled
BuildModel ==
  /\ hpc = "ready"
  /\ static_ham_full' = static_ham(prm)
  /\ drive_op0' = drive0(prm)
  /\ drive_op1' = drive1(prm)
  /\ hpc' = "built"
  /\ UNCHANGED prm
  /\ UNCHANGED fidVars
  /\ UNCHANGED objVars

NextHam == BuildModel

SpecHam == InitHam /\ [][NextHam]_vars

\* the drift Hamiltonian of the notebook's formula, with matrix products
\* and the number operators N_j = a_j^dag a_j
DocumentedDrift(p) ==
  LET Nq0 == HMatMul(a0dag, a0)
      Nq1 == HMatMul(a1dag, a1)
  IN HAdd(HAdd(HAdd(HScale(2 * p.v0, Nq0),
                    HScale(p.anharm0, HMatMul(Nq0, HSub(Nq0, full_ident)))),
               HAdd(HScale(2 * p.v1, Nq1),
                    HScale(p.anharm1, HMatMul(Nq1, HSub(Nq1, full_ident))))),
          HScale(2 * p.J, HMatMul(HAdd(a0, a0dag), HAdd(a1, a1dag))))

\* C16: the static Hamiltonian assembled by the cell equals the documented
\* drift Hamiltonian written with matrix products, although the
\* anharmonicity terms are computed element-wise; it is Hermitian, and so
\* are both drive operators.
StaticHamIsDocumentedAndHermitian ==
  hpc = "built" =>
    /\ static_ham_full = DocumentedDrift(prm)
    /\ static_ham_full = Dagger(static_ham_full)
    /\ drive_op0 = Dagger(drive_op0)
    /\ drive_op1 = Dagger(drive_op1)

\* the cell has run with the notebook's values: anharmonicity and coupling
\* are non-zero, so both kinds of product contribute to the matrix
ModelBuiltWithNotebookValues ==
  /\ hpc = "built"
  /\ prm = NotebookParams
  /\ static_ham_full[9][9] = RInt(2 * (2 * 4860 - 320) + 2 * (2 * 4970 - 320))
  /\ static_ham_full[1][5] # RZero
  /\ drive_op0[2][3] = <<0, 440>>

\* objective is called with some parameter array
InitObj ==
  /\ params \in ParamArrays
  /\ signal = NoSignal
  /\ solve_call = NoCall
  /\ results_y = << >>
  /\ value = NoValue
  /\ opc = "start"
  /\ FidIdle
  /\ HamIdle

\* signal = signal_mapping(params)
ObjSignalMapping ==
  /\ opc = "start"
  /\ signal' \in signal_mapping(params)
  /\ opc' = "mapped"
  /\ UNCHANGED <<params, solve_call, results_y, value>>
  /\ UNCHANGED <<fidVars, hamVars>>

\* results = ham_solver.solve(y0=np.eye(2, dtype=complex),
\*     t_span=[0, signal.duration * signal.dt], signals=[signal], ...)
ObjSolve ==
  /\ opc = "mapped"
  /\ solve_call' = [y0 |-> y0,
                    t_span |-> <<0, signal.duration * signal.dt>>,
                    signals |-> <<signal>>]
  /\ results_y' \in Trajectories
  /\ opc' = "solved"
  /\ UNCHANGED <<params, signal, value>>
  /\ UNCHANGED <<fidVars, hamVars>>

\* U = results.y[-1]; fid = fidelity(U); return 1. - fid.data
ObjReturn ==
  /\ opc = "solved"
  /\ value' = one_minus(fidelity_of_snapshot(snapshot_read(results_y)))
  /\ opc' = "returned"
  /\ UNCHANGED <<params, signal, solve_call, results_y>>
  /\ UNCHANGED <<fidVars, hamVars>>

NextObj == ObjSignalMapping \/ ObjSolve \/ ObjReturn

SpecObj == InitObj /\ [][NextObj]_vars

\* U = e^{i phi} X, for U = S.m / sqrt(S.k) unitary
IsXUpToPhase(S) ==
  /\ S.m[1][1] = CZero
  /\ S.m[2][2] = CZero
  /\ S.m[1][2] = S.m[2][1]

\* C11: objective(params) applies signal_mapping to params, simulates from
\* the identity over [0, duration * dt] of that signal, and returns
\* 1 - |Tr(X U)|^2 / 4 for the last snapshot U; for unitary U the value
\* lies in [0, 1] and is 0 exactly when U is X up to a global phase.
ObjectiveIsInfidelityOfLastSnapshot ==
  opc = "returned" =>
    LET Ulast == results_y[Len(results_y)]
    IN /\ signal \in signal_mapping(params)
       /\ solve_call.signals = <<signal>>
       /\ solve_call.y0 = [m |-> Eye2, k |-> 1]
       /\ solve_call.t_span = <<0, signal.duration * signal.dt>>
       /\ value.den = 4 * Ulast.k
       /\ value.num = 4 * Ulast.k - AbsSq(Trace(MatMul(X_op, Ulast.m)))
       /\ value.num >= 0 /\ value.num <= value.den
       /\ (value.num = 0) <=> IsXUpToPhase(Ulast)

\* objective has returned an infidelity strictly between 0 and 1 for a last
\* snapshot that differs from the first one and has no zero entry
ObjectiveReturnedForDenseUnitary ==
  /\ opc = "returned"
  /\ Len(results_y) = 2
  /\ results_y[2] # results_y[1]
  /\ \A i \in 1..2 : \A j \in 1..2 : results_y[2].m[i][j] # CZero
  /\ value.num > 0 /\ value.num < value.den

\* objective has returned 0 for X with the global phase e^{i pi / 4}
ObjectiveReturnedZeroForPhasedX ==
  /\ opc = "returned"
  /\ results_y[Len(results_y)] = [m |-> << <<CZero, <<1, 1>>>>, <<<<1, 1>>, CZero>> >>, k |-> 2]
  /\ value.num = 0
====
